---- MODULE Spec2Model ----
(***************************************************************************)
(* Link rewriter of the affiliate bot (src/bot.py).                        *)
(*                                                                         *)
(* A Python str is modelled as a sequence of one-character strings, so     *)
(* that substring tests, regular expressions, str.replace and the URL      *)
(* library calls are computed character by character, as the code does.    *)
(* Indexes are 1-based; a match is a record [start, end] whose end is the  *)
(* index just after the last matched character (Python's end + 1).  An     *)
(* operator that looks for a position returns 0 when there is none.        *)
(*                                                                         *)
(* A value that a step of the code computes once and uses several times    *)
(* is passed on as an operator argument rather than named in a LET.        *)
(***************************************************************************)
EXTENDS Integers, Sequences, FiniteSets, TLC

(* ------------------------------------------------------------------------ *)
(* Characters and character classes                                         *)
(* ------------------------------------------------------------------------ *)

Upper == {"A","B","C","D","E","F","G","H","I","J","K","L","M","N","O","P","Q","R","S","T","U","V","W","X","Y","Z"}

LowerCase == {"a","b","c","d","e","f","g","h","i","j","k","l","m","n","o","p","q","r","s","t","u","v","w","x","y","z"}

Digit == {"0","1","2","3","4","5","6","7","8","9"}

Alnum == Upper \cup LowerCase \cup Digit

LowerOf ==
    ("A" :> "a") @@ ("B" :> "b") @@ ("C" :> "c") @@ ("D" :> "d") @@ ("E" :> "e") @@
    ("F" :> "f") @@ ("G" :> "g") @@ ("H" :> "h") @@ ("I" :> "i") @@ ("J" :> "j") @@
    ("K" :> "k") @@ ("L" :> "l") @@ ("M" :> "m") @@ ("N" :> "n") @@ ("O" :> "o") @@
    ("P" :> "p") @@ ("Q" :> "q") @@ ("R" :> "r") @@ ("S" :> "s") @@ ("T" :> "t") @@
    ("U" :> "u") @@ ("V" :> "v") @@ ("W" :> "w") @@ ("X" :> "x") @@ ("Y" :> "y") @@
    ("Z" :> "z")

\* str.lower() on one character, and what re.IGNORECASE compares
lowerc(c) == IF c \in Upper THEN LowerOf[c] ELSE c

\* str.lower()
lower(s) == [i \in 1..Len(s) |-> lowerc(s[i])]

\* \s
Whitespace == {" ", "\t", "\n", "\r"}

\* the characters [^\s\)\]\>\<]* stops at
PathStop == Whitespace \cup {")", "]", ">", "<"}

\* [a-z.] under re.IGNORECASE
TldChar == Upper \cup LowerCase \cup {"."}

\* [a-zA-Z0-9\-]
SubdomainChar == Alnum \cup {"-"}

\* [.,;!?)\]>] of the first clean-up, [<>] of the second
TrailingPunct == {".", ",", ";", "!", "?", ")", "]", ">"}

AngleBracket == {"<", ">"}

\* the characters the lookahead (?=\s|$|[\.\,\!\?\)\]]) accepts
LookaheadChar == Whitespace \cup {".", ",", "!", "?", ")", "]"}

\* urllib.parse.scheme_chars
SchemeChar == Alnum \cup {"+", "-", "."}

\* the characters quote_plus leaves as they are
SafeChar == Alnum \cup {"_", ".", "-", "~"}

(* ------------------------------------------------------------------------ *)
(* str operations                                                           *)
(* ------------------------------------------------------------------------ *)

\* s[i:i+len(lit)] == lit
StartsWithAt(s, i, lit) ==
    /\ i >= 1
    /\ i + Len(lit) - 1 <= Len(s)
    /\ \A k \in 1..Len(lit) : s[i + k - 1] = lit[k]

\* the same comparison under re.IGNORECASE
StartsWithAtCI(s, i, lit) ==
    /\ i >= 1
    /\ i + Len(lit) - 1 <= Len(s)
    /\ \A k \in 1..Len(lit) : lowerc(s[i + k - 1]) = lowerc(lit[k])

\* str.find(lit, i): the first index >= i where lit starts, 0 when absent
RECURSIVE Find(_, _, _)
Find(s, lit, i) ==
    IF i + Len(lit) - 1 > Len(s) THEN 0
    ELSE IF StartsWithAt(s, i, lit) THEN i
    ELSE Find(s, lit, i + 1)

\* lit in s
Contains(s, lit) == Find(s, lit, 1) # 0

\* str.rfind(lit): the last index where lit starts, 0 when absent
RECURSIVE RFindFrom(_, _, _)
RFindFrom(s, lit, i) ==
    IF i < 1 THEN 0
    ELSE IF StartsWithAt(s, i, lit) THEN i
    ELSE RFindFrom(s, lit, i - 1)

RFind(s, lit) == RFindFrom(s, lit, Len(s) - Len(lit) + 1)

\* s[i:] and s[:i] with 1-based i
From(s, i) == SubSeq(s, i, Len(s))

Upto(s, i) == SubSeq(s, 1, i)

\* str.replace(old, new): every non-overlapping occurrence, left to right
RECURSIVE Replace(_, _, _)
ReplaceAt(s, old, new, i) ==
    IF i = 0 THEN s
    ELSE Upto(s, i - 1) \o new \o Replace(From(s, i + Len(old)), old, new)

Replace(s, old, new) == ReplaceAt(s, old, new, Find(s, old, 1))

\* the index after the longest run, from i, of characters in Class
\* (of characters outside Class when neg)
RECURSIVE RunEnd(_, _, _, _)
RunEnd(s, i, Class, neg) ==
    IF i > Len(s) \/ ((s[i] \in Class) = neg) THEN i
    ELSE RunEnd(s, i + 1, Class, neg)

\* the index after the last character that is not in Class, scanning back
\* from the end: re.sub(r'[Class]+$', '', s) keeps s[:that]
RECURSIVE StripEnd(_, _, _)
StripEnd(s, n, Class) ==
    IF n >= 1 /\ s[n] \in Class THEN StripEnd(s, n - 1, Class) ELSE n

rstrip_class(s, Class) == Upto(s, StripEnd(s, Len(s), Class))

\* str.split(sep) for a one-character sep
RECURSIVE Split(_, _)
SplitAt(s, sep, i) ==
    IF i = 0 THEN <<s>>
    ELSE <<Upto(s, i - 1)>> \o Split(From(s, i + 1), sep)

Split(s, sep) == SplitAt(s, sep, Find(s, <<sep>>, 1))

\* sep.join(parts)
RECURSIVE Join(_, _)
Join(parts, sep) ==
    IF parts = <<>> THEN <<>>
    ELSE IF Len(parts) = 1 THEN parts[1]
    ELSE parts[1] \o sep \o Join(Tail(parts), sep)

(* ------------------------------------------------------------------------ *)
(* urllib.parse, as convert_amazon_link uses it                             *)
(* ------------------------------------------------------------------------ *)

\* schemes whose path may carry ;params
uses_params == {<<>>, <<"f","t","p">>, <<"h","d","l">>, <<"p","r","o","s","p","e","r","o">>, <<"h","t","t","p">>, <<"i","m","a","p">>, <<"h","t","t","p","s">>,
                <<"s","h","t","t","p">>, <<"r","t","s","p">>, <<"r","t","s","p","u">>, <<"s","i","p">>, <<"s","i","p","s">>, <<"m","m","s">>, <<"s","f","t","p">>, <<"t","e","l">>}

\* the %XX escapes of the punctuation the model's inputs use
PercentCode ==
    (" " :> <<"%","2","0">>) @@ ("!" :> <<"%","2","1">>) @@ ("#" :> <<"%","2","3">>) @@ ("%" :> <<"%","2","5">>) @@
    ("&" :> <<"%","2","6">>) @@ ("(" :> <<"%","2","8">>) @@ (")" :> <<"%","2","9">>) @@ ("+" :> <<"%","2","B">>) @@
    ("," :> <<"%","2","C">>) @@ ("/" :> <<"%","2","F">>) @@ (":" :> <<"%","3","A">>) @@ (";" :> <<"%","3","B">>) @@
    ("=" :> <<"%","3","D">>) @@ ("?" :> <<"%","3","F">>) @@ ("<" :> <<"%","3","C">>) @@ (">" :> <<"%","3","E">>) @@
    ("[" :> <<"%","5","B">>) @@ ("]" :> <<"%","5","D">>)

\* quote_plus: a space becomes +, a safe character stays, the rest is escaped
QuoteChar(c) ==
    IF c = " " THEN <<"+">>
    ELSE IF c \in SafeChar THEN <<c>>
    ELSE IF c \in DOMAIN PercentCode THEN PercentCode[c]
    ELSE <<c>>

RECURSIVE quote_plus(_)
quote_plus(s) == IF s = <<>> THEN <<>> ELSE QuoteChar(Head(s)) \o quote_plus(Tail(s))

\* unquote: a known %XX escape becomes its character
\* the characters whose escape is the three characters e, in either case
Unescaped(e) == {c \in DOMAIN PercentCode : lower(PercentCode[c]) = lower(e)}

RECURSIVE unquote(_)
unquote(s) ==
    IF s = <<>> THEN <<>>
    ELSE IF Head(s) = "%" /\ Len(s) >= 3 /\ Unescaped(SubSeq(s, 1, 3)) # {}
         THEN <<CHOOSE c \in Unescaped(SubSeq(s, 1, 3)) : TRUE>> \o unquote(From(s, 4))
    ELSE <<Head(s)>> \o unquote(Tail(s))

\* the least element of a non-empty set of numbers
Min(S) == CHOOSE d \in S : \A e \in S : d <= e

\* the first index of / ? or # from index 3 on, Len + 1 when there is none:
\* where _splitnetloc(url, 2) ends the netloc
NetlocEnd(url) ==
    Min(({Find(url, <<c>>, 3) : c \in {"/", "?", "#"}} \ {0}) \cup {Len(url) + 1})

\* the characters urlsplit removes from a URL, wherever they are
UnsafeUrlBytes == {"\t", "\r", "\n"}

\* urlsplit's first steps: leading blanks stripped, unsafe characters removed
UrlClean(url) ==
    SelectSeq(From(url, RunEnd(url, 1, Whitespace, FALSE)), LAMBDA c : c \notin UnsafeUrlBytes)

\* the scheme, where the text before the first colon is one
UrlScheme(url, i) ==
    IF /\ i > 1
       /\ url[1] \in Upper \cup LowerCase
       /\ \A k \in 1..(i - 1) : url[k] \in SchemeChar
    THEN [scheme |-> lower(Upto(url, i - 1)), url |-> From(url, i + 1)]
    ELSE [scheme |-> <<>>, url |-> url]

\* the netloc, where the rest starts with //; ok is FALSE where urlsplit
\* raises ValueError("Invalid IPv6 URL")
UrlNetlocAt(a, d) ==
    IF StartsWithAt(a.url, 1, <<"/","/">>)
    THEN [scheme |-> a.scheme, netloc |-> SubSeq(a.url, 3, d - 1), url |-> From(a.url, d),
          ok |-> Contains(SubSeq(a.url, 3, d - 1), <<"[">>)
                 = Contains(SubSeq(a.url, 3, d - 1), <<"]">>)]
    ELSE [scheme |-> a.scheme, netloc |-> <<>>, url |-> a.url, ok |-> TRUE]

UrlNetloc(a) == UrlNetlocAt(a, NetlocEnd(a.url))

\* url.split('#', 1)
UrlFragmentAt(b, h) ==
    [ok |-> b.ok, scheme |-> b.scheme, netloc |-> b.netloc,
     url |-> IF h = 0 THEN b.url ELSE Upto(b.url, h - 1),
     fragment |-> IF h = 0 THEN <<>> ELSE From(b.url, h + 1)]

UrlFragment(b) == UrlFragmentAt(b, Find(b.url, <<"#">>, 1))

\* url.split('?', 1)
UrlQueryAt(c, q) ==
    [ok |-> c.ok, scheme |-> c.scheme, netloc |-> c.netloc, fragment |-> c.fragment,
     url |-> IF q = 0 THEN c.url ELSE Upto(c.url, q - 1),
     query |-> IF q = 0 THEN <<>> ELSE From(c.url, q + 1)]

UrlQuery(c) == UrlQueryAt(c, Find(c.url, <<"?">>, 1))

\* _splitparams(url), for a scheme in uses_params: at the first ; of the
\* last path segment
UrlParamsAt(d, semi) ==
    [ok |-> d.ok, scheme |-> d.scheme, netloc |-> d.netloc, query |-> d.query,
     fragment |-> d.fragment,
     path |-> IF d.scheme \in uses_params /\ semi # 0 THEN Upto(d.url, semi - 1) ELSE d.url,
     params |-> IF d.scheme \in uses_params /\ semi # 0 THEN From(d.url, semi + 1) ELSE <<>>]

UrlParams(d) ==
    UrlParamsAt(d, IF Contains(d.url, <<"/">>)
                   THEN Find(d.url, <<";">>, RFind(d.url, <<"/">>))
                   ELSE Find(d.url, <<";">>, 1))

\* urlparse(url): [ok, scheme, netloc, path, params, query, fragment]
urlparse(url) ==
    UrlParams(UrlQuery(UrlFragment(UrlNetloc(
        UrlScheme(UrlClean(url), Find(UrlClean(url), <<":">>, 1))))))

\* parse_qsl(qs): the (name, value) pairs of the fields that have a non-blank
\* value, in order; fields without = or with a blank value are skipped
RECURSIVE QslOf(_)
QslField(f, e, rest) ==
    IF f = <<>> \/ e = 0 \/ e = Len(f) THEN QslOf(rest)
    ELSE <<[name |-> unquote(Replace(Upto(f, e - 1), <<"+">>, <<" ">>)),
            value |-> unquote(Replace(From(f, e + 1), <<"+">>, <<" ">>))]>>
         \o QslOf(rest)

QslOf(fields) ==
    IF fields = <<>> THEN <<>>
    ELSE QslField(Head(fields), Find(Head(fields), <<"=">>, 1), Tail(fields))

parse_qsl(qs) == IF qs = <<>> THEN <<>> ELSE QslOf(Split(qs, "&"))

\* parse_qs(qs): the dict name -> list of values, as a sequence of
\* [name, values] in the dict's insertion order
RECURSIVE DictOf(_, _)
DictOf(pairs, dict) ==
    IF pairs = <<>> THEN dict
    ELSE DictOf(Tail(pairs),
                IF \E i \in 1..Len(dict) : dict[i].name = Head(pairs).name
                THEN [i \in 1..Len(dict) |->
                         IF dict[i].name = Head(pairs).name
                         THEN [name |-> dict[i].name,
                               values |-> Append(dict[i].values, Head(pairs).value)]
                         ELSE dict[i]]
                ELSE Append(dict, [name |-> Head(pairs).name,
                                   values |-> <<Head(pairs).value>>]))

parse_qs(qs) == DictOf(parse_qsl(qs), <<>>)

\* del d[name], where present
DictDel(dict, name) == SelectSeq(dict, LAMBDA e : e.name # name)

\* d[name] = values: in place where d holds name, appended last otherwise
DictSet(dict, name, values) ==
    IF \E i \in 1..Len(dict) : dict[i].name = name
    THEN [i \in 1..Len(dict) |->
             IF dict[i].name = name THEN [name |-> name, values |-> values] ELSE dict[i]]
    ELSE Append(dict, [name |-> name, values |-> values])

\* name in d
DictHas(dict, name) == \E i \in 1..Len(dict) : dict[i].name = name

\* urlencode(d, doseq=True)
RECURSIVE EncodeValues(_, _)
EncodeValues(name, values) ==
    IF values = <<>> THEN <<>>
    ELSE <<quote_plus(name) \o <<"=">> \o quote_plus(Head(values))>>
         \o EncodeValues(name, Tail(values))

RECURSIVE EncodeItems(_)
EncodeItems(dict) ==
    IF dict = <<>> THEN <<>>
    ELSE EncodeValues(Head(dict).name, Head(dict).values) \o EncodeItems(Tail(dict))

urlencode(dict) == Join(EncodeItems(dict), <<"&">>)

(* ------------------------------------------------------------------------ *)
(* Configuration                                                            *)
(* ------------------------------------------------------------------------ *)

\* os.environ.get('search_url', 'amazon.in')
SEARCH_URL == <<"a","m","a","z","o","n",".","i","n">>

\* the length {10} of an ASIN in every pattern, and of the validation
AsinLen == 10

(* ------------------------------------------------------------------------ *)
(* convert_amazon_link                                                      *)
(* ------------------------------------------------------------------------ *)

\* the asin_patterns list, in its order.  lead "segment" is the leading
\* /[^/]* of the category pattern; tail says what must follow the ASIN:
\* "any" nothing, "end" /?(?:\?|$), "name" /[^/]*/?(?:\?|$), "edge" (?=\/|\?|$)
asin_patterns == <<
    [lead |-> "none",    prefix |-> <<"/","d","p","/">>,               tail |-> "any"],
    [lead |-> "none",    prefix |-> <<"/","g","p","/","p","r","o","d","u","c","t","/">>,       tail |-> "any"],
    [lead |-> "none",    prefix |-> <<"/","p","r","o","d","u","c","t","/">>,          tail |-> "any"],
    [lead |-> "none",    prefix |-> <<"/">>,                  tail |-> "end"],
    [lead |-> "none",    prefix |-> <<"/">>,                  tail |-> "name"],
    [lead |-> "none",    prefix |-> <<"/","e","x","e","c","/","o","b","i","d","o","s","/","A","S","I","N","/">>, tail |-> "any"],
    [lead |-> "segment", prefix |-> <<"/","d","p","/">>,               tail |-> "any"],
    [lead |-> "none",    prefix |-> <<"/">>,                  tail |-> "edge"],
    [lead |-> "none",    prefix |-> <<"/","o","/","A","S","I","N","/">>,           tail |-> "any"],
    [lead |-> "none",    prefix |-> <<"/","r","e","f","=">>,              tail |-> "any"],
    [lead |-> "none",    prefix |-> <<"/","d","e","t","a","i","l","/","-","/">>,         tail |-> "any"],
    [lead |-> "none",    prefix |-> <<"/","p","r","o","d","u","c","t","-","r","e","v","i","e","w","s","/">>,  tail |-> "any"],
    [lead |-> "none",    prefix |-> <<"/","a","s","k","/","q","u","e","s","t","i","o","n","s","/">>,    tail |-> "any"],
    [lead |-> "none",    prefix |-> <<"/","c","u","s","t","o","m","e","r","-","r","e","v","i","e","w","s","/">>, tail |-> "any"] >>

\* ([A-Z0-9]{10}) under re.IGNORECASE, at index g
IsAsinAt(s, g) ==
    /\ g + AsinLen - 1 <= Len(s)
    /\ \A k \in 0..(AsinLen - 1) : s[g + k] \in Alnum

\* $ : the end of the string, or just before a final newline
AtEnd(s, j) == j > Len(s) \/ (j = Len(s) /\ s[j] = "\n")

\* (?:\?|$)
QueryOrEnd(s, j) == AtEnd(s, j) \/ (j <= Len(s) /\ s[j] = "?")

\* /?(?:\?|$)
SlashQueryOrEnd(s, j) ==
    \/ (j <= Len(s) /\ s[j] = "/" /\ QueryOrEnd(s, j + 1))
    \/ QueryOrEnd(s, j)

\* what pattern p wants after an ASIN that ends before index j
AsinTail(p, s, j) ==
    CASE p.tail = "any"  -> TRUE
      [] p.tail = "end"  -> SlashQueryOrEnd(s, j)
      [] p.tail = "name" ->
            /\ j <= Len(s) /\ s[j] = "/"
            /\ \E r \in (j + 1)..RunEnd(s, j + 1, {"/"}, TRUE) : SlashQueryOrEnd(s, r)
      [] p.tail = "edge" -> AtEnd(s, j) \/ (j <= Len(s) /\ s[j] \in {"/", "?"})

\* pattern p tried at index i: the index where group 1 starts, 0 for no match
AsinGroupFrom(p, s, at) ==
    IF at # 0 /\ StartsWithAtCI(s, at, p.prefix) /\ IsAsinAt(s, at + Len(p.prefix))
       /\ AsinTail(p, s, at + Len(p.prefix) + AsinLen)
    THEN at + Len(p.prefix) ELSE 0

AsinGroupAt(p, s, i) ==
    AsinGroupFrom(p, s, IF p.lead = "segment"
                        THEN IF i <= Len(s) /\ s[i] = "/"
                             THEN RunEnd(s, i + 1, {"/"}, TRUE) ELSE 0
                        ELSE i)

\* re.search(pattern, path, re.IGNORECASE).group(1): the leftmost match
RECURSIVE AsinSearch(_, _, _)
AsinSearchAt(p, s, i, g) ==
    IF g # 0 THEN SubSeq(s, g, g + AsinLen - 1) ELSE AsinSearch(p, s, i + 1)

AsinSearch(p, s, i) ==
    IF i > Len(s) THEN <<>> ELSE AsinSearchAt(p, s, i, AsinGroupAt(p, s, i))

\* the loop over asin_patterns: the first pattern whose match is 10
\* alphanumeric characters decides; <<>> is asin = None
RECURSIVE ExtractAsin(_, _)
ValidateAsin(path, k, potential_asin) ==
    IF potential_asin # <<>> /\ Len(potential_asin) = AsinLen
       /\ \A i \in 1..Len(potential_asin) : potential_asin[i] \in Alnum
    THEN potential_asin
    ELSE ExtractAsin(path, k + 1)

ExtractAsin(path, k) ==
    IF k > Len(asin_patterns) THEN <<>>
    ELSE ValidateAsin(path, k, AsinSearch(asin_patterns[k], path, 1))

\* a wider allow-list, which lets the parameter foo through: C10 must not hold of it
keep_params_with_foo == {<<"t","a","g">>, <<"r","e","f">>, <<"p","s","c">>, <<"k","e","y","w","o","r","d","s">>, <<"q","i","d">>, <<"s","r">>, <<"f","o","o">>}

\* keep_params = ['tag', 'ref', 'psc', 'keywords', 'qid', 'sr']
keep_params == {<<"t","a","g">>, <<"r","e","f">>, <<"p","s","c">>, <<"k","e","y","w","o","r","d","s">>, <<"q","i","d">>, <<"s","r">>}

\* 'amzn.to' in url or 'a.co' in url
IsShortened(url) == Contains(url, <<"a","m","z","n",".","t","o">>) \/ Contains(url, <<"a",".","c","o">>)

\* the shortened-URL branch: the tag is appended to the URL as it is
ShortenedLink(url, affiliate_tag) ==
    url \o (IF Contains(url, <<"?">>) THEN <<"&">> ELSE <<"?">>) \o <<"t","a","g","=">> \o affiliate_tag

\* the existing tag is deleted, then query_params['tag'] = [affiliate_tag]
RetagParams(query_params, affiliate_tag) ==
    DictSet(IF DictHas(query_params, <<"t","a","g">>) THEN DictDel(query_params, <<"t","a","g">>)
            ELSE query_params,
            <<"t","a","g">>, <<affiliate_tag>>)

\* the ASIN branch: https://<domain>/dp/<asin>?<kept parameters>
ProductLink(domain, asin, query_params, affiliate_tag) ==
    LET filtered_params == SelectSeq(RetagParams(query_params, affiliate_tag),
                                     LAMBDA e : e.name \in keep_params)
        target_domain == IF Contains(domain, <<"a","m","a","z","o","n">>) THEN domain ELSE SEARCH_URL
    IN  <<"h","t","t","p","s",":","/","/">> \o target_domain \o <<"/","d","p","/">> \o asin \o <<"?">> \o urlencode(filtered_params)

\* the search/category branch: every parameter is kept, the tag replaced
SearchLink(domain, path, query_params, affiliate_tag) ==
    <<"h","t","t","p","s",":","/","/">> \o domain \o path \o <<"?">> \o urlencode(RetagParams(query_params, affiliate_tag))

\* the body of convert_amazon_link once the URL is parsed and the ASIN
\* looked for; <<>> is asin = None
ConvertParsed(url, domain, path, query_params, asin, affiliate_tag) ==
    IF asin # <<>> THEN ProductLink(domain, asin, query_params, affiliate_tag)
    ELSE IF Contains(domain, <<"a","m","a","z","o","n">>)
         THEN SearchLink(domain, path, query_params, affiliate_tag)
    ELSE url

\* the except branch returns the URL as it came
ConvertUrl(url, parsed_url, affiliate_tag) ==
    IF ~parsed_url.ok THEN url
    ELSE ConvertParsed(url, lower(parsed_url.netloc), parsed_url.path,
                       parse_qs(parsed_url.query), ExtractAsin(parsed_url.path, 1),
                       affiliate_tag)

convert_amazon_link(url, affiliate_tag) ==
    IF IsShortened(url) THEN ShortenedLink(url, affiliate_tag)
    ELSE ConvertUrl(url, urlparse(url), affiliate_tag)

(* ------------------------------------------------------------------------ *)
(* convert_all_links                                                        *)
(* ------------------------------------------------------------------------ *)

\* https?:// at index i: the index after it, 0 for no match
HttpEnd(s, i) ==
    IF ~StartsWithAtCI(s, i, <<"h","t","t","p">>) THEN 0
    ELSE IF StartsWithAtCI(s, i + 4, <<"s",":","/","/">>) THEN i + 8
    ELSE IF StartsWithAtCI(s, i + 4, <<":","/","/">>) THEN i + 7
    ELSE 0

\* [^\s\)\]\>\<]* from index i: the index after the run
PathEnd(s, i) == RunEnd(s, i, PathStop, TRUE)

\* amazon\.[a-z.]{2,}/ at index i: the index after the slash.  The run of
\* [a-z.] is followed by a character outside the class, so only the
\* longest run can be followed by the slash.
TldEnd(s, from, r) ==
    IF r - from >= 2 /\ r <= Len(s) /\ s[r] = "/" THEN r + 1 ELSE 0

\* a looser host matcher, without the amazon\. literal: any [a-z.]{2,}/ host
\* passes it, and C6 must not hold of it
AnyHostEnd(s, i) == TldEnd(s, i, RunEnd(s, i, TldChar, FALSE))

\* amazon\.[a-z.]{2,}/ at index i
AmazonHostEnd(s, i) ==
    IF ~StartsWithAtCI(s, i, <<"a","m","a","z","o","n",".">>) THEN 0
    ELSE TldEnd(s, i + 7, RunEnd(s, i + 7, TldChar, FALSE))

\* the alternatives of the country-specific pattern, in their order
CountryTlds == << <<"c","o","m">>, <<"i","n">>, <<"c","o",".","u","k">>, <<"d","e">>, <<"f","r">>, <<"i","t">>, <<"e","s">>, <<"c","a">>,
                  <<"c","o","m",".","a","u">>, <<"c","o",".","j","p">>, <<"c","o","m",".","b","r">>, <<"c","o","m",".","m","x">>, <<"c","n">>, <<"s","g">>, <<"a","e">>, <<"s","a">> >>

\* amazon\.(?:com|in|...)/ at index i: the first alternative the slash follows
RECURSIVE CountryHostEnd(_, _, _)
CountryHostEnd(s, i, k) ==
    IF k > Len(CountryTlds) \/ ~StartsWithAtCI(s, i, <<"a","m","a","z","o","n",".">>) THEN 0
    ELSE IF StartsWithAtCI(s, i + 7, CountryTlds[k] \o <<"/">>)
         THEN i + 7 + Len(CountryTlds[k]) + 1
    ELSE CountryHostEnd(s, i, k + 1)

\* (?:lit)? then the rest: with lit first, without it when that fails
OrElse(w, s, i, Rest(_, _)) == IF w # 0 THEN w ELSE Rest(s, i)

WithOptional(s, i, lit, Rest(_, _)) ==
    OrElse(IF StartsWithAtCI(s, i, lit) THEN Rest(s, i + Len(lit)) ELSE 0, s, i, Rest)

\* amazon\.[a-z.]{2,}/[^\s\)\]\>\<]*
PathFrom(s, h) == IF h = 0 THEN 0 ELSE PathEnd(s, h)

AmazonUrlEnd(s, i) == PathFrom(s, AmazonHostEnd(s, i))

\* amazon\.(?:com|in|...)/[^\s\)\]\>\<]*
CountryUrlEnd(s, i) == PathFrom(s, CountryHostEnd(s, i, 1))

\* <host>/[A-Za-z0-9]+ of the shortened-link patterns
NonEmptyRun(from, e) == IF e > from THEN e ELSE 0

ShortUrlEnd(s, i, host) ==
    IF ~StartsWithAtCI(s, i, host) THEN 0
    ELSE NonEmptyRun(i + Len(host), RunEnd(s, i + Len(host), Alnum, FALSE))

\* <sub>\.amazon\.[a-z.]{2,}/[^\s\)\]\>\<]* of the smile, business, prime patterns
SubUrlEnd(s, i, sub) ==
    IF StartsWithAtCI(s, i, sub) THEN AmazonUrlEnd(s, i + Len(sub)) ELSE 0

SmileUrlEnd(s, i) == SubUrlEnd(s, i, <<"s","m","i","l","e",".">>)

BusinessUrlEnd(s, i) == SubUrlEnd(s, i, <<"b","u","s","i","n","e","s","s",".">>)

PrimeUrlEnd(s, i) == SubUrlEnd(s, i, <<"p","r","i","m","e",".">>)

\* the path of the scheme-less pattern: the longest run of path characters
\* that the lookahead (?=\s|$|[\.\,\!\?\)\]]) accepts the end of
RECURSIVE LookaheadEnd(_, _, _)
LookaheadEnd(s, from, e) ==
    IF e < from THEN 0
    ELSE IF AtEnd(s, e) \/ (e <= Len(s) /\ s[e] \in LookaheadChar) THEN e
    ELSE LookaheadEnd(s, from, e - 1)

\* amazon\.[a-z.]{2,}/[^\s\)\]\>\<]*(?=\s|$|[\.\,\!\?\)\]])
LookaheadFrom(s, h) == IF h = 0 THEN 0 ELSE LookaheadEnd(s, h, PathEnd(s, h))

BareUrlEnd(s, i) == LookaheadFrom(s, AmazonHostEnd(s, i))

\* [a-zA-Z0-9\-]*\.amazon\.[a-z.]{2,}/[^\s\)\]\>\<]*.  The subdomain run is
\* followed by a dot, which is outside its class: only the longest run fits.
AfterSubdomain(s, r) ==
    IF r <= Len(s) /\ s[r] = "." THEN AmazonUrlEnd(s, r + 1) ELSE 0

AnySubUrlEnd(s, i) == AfterSubdomain(s, RunEnd(s, i, SubdomainChar, FALSE))

\* after https?://
Then(s, h, Rest(_, _)) == IF h = 0 THEN 0 ELSE Rest(s, h)

HttpThen(s, i, Rest(_, _)) == Then(s, HttpEnd(s, i), Rest)

WwwAmazonUrlEnd(s, i) == WithOptional(s, i, <<"w","w","w",".">>, AmazonUrlEnd)

WwwCountryUrlEnd(s, i) == WithOptional(s, i, <<"w","w","w",".">>, CountryUrlEnd)

WwwSmileUrlEnd(s, i) == WithOptional(s, i, <<"w","w","w",".">>, SmileUrlEnd)

WwwBusinessUrlEnd(s, i) == WithOptional(s, i, <<"w","w","w",".">>, BusinessUrlEnd)

WwwPrimeUrlEnd(s, i) == WithOptional(s, i, <<"w","w","w",".">>, PrimeUrlEnd)

AmznToEnd(s, i) == ShortUrlEnd(s, i, <<"a","m","z","n",".","t","o","/">>)

ACoEnd(s, i) == ShortUrlEnd(s, i, <<"a",".","c","o","/">>)

AmazonToEnd(s, i) == ShortUrlEnd(s, i, <<"a","m","a","z","o","n",".","t","o","/">>)

\* amazon://[^\s\)\]\>\<]*
DeepLinkEnd(s, i) ==
    IF StartsWithAtCI(s, i, <<"a","m","a","z","o","n",":","/","/">>) THEN PathEnd(s, i + 9) ELSE 0

NumPatterns == 11

\* amazon_patterns[k - 1] tried at index i under re.IGNORECASE: the index
\* after the match, 0 for no match
amazon_patterns(k, s, i) ==
    CASE k = 1  -> HttpThen(s, i, WwwAmazonUrlEnd)
      [] k = 2  -> HttpThen(s, i, WwwCountryUrlEnd)
      [] k = 3  -> HttpThen(s, i, AmznToEnd)
      [] k = 4  -> HttpThen(s, i, ACoEnd)
      [] k = 5  -> HttpThen(s, i, AmazonToEnd)
      [] k = 6  -> HttpThen(s, i, WwwSmileUrlEnd)
      [] k = 7  -> HttpThen(s, i, WwwBusinessUrlEnd)
      [] k = 8  -> HttpThen(s, i, WwwPrimeUrlEnd)
      [] k = 9  -> WithOptional(s, i, <<"w","w","w",".">>, BareUrlEnd)
      [] k = 10 -> DeepLinkEnd(s, i)
      [] k = 11 -> HttpThen(s, i, AnySubUrlEnd)

\* re.finditer(pattern, text, re.IGNORECASE): the matches from left to
\* right, each search resuming where the previous match ended
RECURSIVE finditer(_, _, _)
MatchAt(k, text, i, e) ==
    IF e = 0 THEN finditer(k, text, i + 1)
    ELSE <<[start |-> i, end |-> e]>> \o finditer(k, text, e)

finditer(k, text, i) ==
    IF i > Len(text) THEN <<>> ELSE MatchAt(k, text, i, amazon_patterns(k, text, i))

\* the clean-up of one match: trailing punctuation, then angle brackets,
\* then https:// in front of a URL without scheme
AddScheme(u) ==
    IF ~(StartsWithAt(u, 1, <<"h","t","t","p">>) \/ StartsWithAt(u, 1, <<"a","m","a","z","o","n",":","/","/">>)) /\ ~IsShortened(u)
    THEN <<"h","t","t","p","s",":","/","/">> \o u
    ELSE u

CleanUrl(matched) ==
    AddScheme(rstrip_class(rstrip_class(matched, TrailingPunct), AngleBracket))

\* the link_info records of pattern k
LinkInfos(k, text, ms) ==
    [j \in 1..Len(ms) |->
        [url |-> CleanUrl(SubSeq(text, ms[j].start, ms[j].end - 1)),
         start |-> ms[j].start, end |-> ms[j].end, pattern_index |-> k - 1]]

LinksOfPattern(k, text) == LinkInfos(k, text, finditer(k, text, 1))

\* all_amazon_links: pattern by pattern
RECURSIVE AllAmazonLinks(_, _)
AllAmazonLinks(text, k) ==
    IF k > NumPatterns THEN <<>>
    ELSE LinksOfPattern(k, text) \o AllAmazonLinks(text, k + 1)

\* unique_links: the first link_info of every url, in order
RECURSIVE UniqueLinks(_, _)
UniqueLinks(links, seen_urls) ==
    IF links = <<>> THEN <<>>
    ELSE IF Head(links).url \in seen_urls THEN UniqueLinks(Tail(links), seen_urls)
    ELSE <<Head(links)>> \o UniqueLinks(Tail(links), seen_urls \cup {Head(links).url})

\* the second replacement: of the match as it stood in the text, where the
\* clean-up changed it and it still occurs
ReplaceOriginal(replaced, original_in_text, original_url, converted_url) ==
    IF original_in_text # original_url /\ Contains(replaced, original_in_text)
    THEN Replace(replaced, original_in_text, converted_url)
    ELSE replaced

\* one pass of the conversion loop, converted_url being
\* convert_amazon_link(original_url, affiliate_tag)
ReplaceLink(text, acc, link_info, converted_url) ==
    IF converted_url # link_info.url
    THEN [converted_text |->
             ReplaceOriginal(Replace(acc.converted_text, link_info.url, converted_url),
                             SubSeq(text, link_info.start, link_info.end - 1),
                             link_info.url, converted_url),
          conversion_count |-> acc.conversion_count + 1]
    ELSE acc

ConvertOne(text, acc, link_info, affiliate_tag) ==
    ReplaceLink(text, acc, link_info, convert_amazon_link(link_info.url, affiliate_tag))

RECURSIVE ConvertLoop(_, _, _, _)
ConvertLoop(text, acc, links, affiliate_tag) ==
    IF links = <<>> THEN acc
    ELSE ConvertLoop(text, ConvertOne(text, acc, Head(links), affiliate_tag),
                     Tail(links), affiliate_tag)

\* convert_all_links(text, affiliate_tag): [converted_text, conversion_count]
convert_all_links(text, affiliate_tag) ==
    IF text = <<>> THEN [converted_text |-> text, conversion_count |-> 0]
    ELSE ConvertLoop(text, [converted_text |-> text, conversion_count |-> 0],
                     UniqueLinks(AllAmazonLinks(text, 1), {}), affiliate_tag)

(* ------------------------------------------------------------------------ *)
(* Inputs                                                                   *)
(* ------------------------------------------------------------------------ *)

\* how often a result is fed back into the function that produced it
MaxPasses == 2

\* values of the affiliate_tag setting
Tags == {<<"m","y","t","a","g","-","2","1">>, <<"o","l","d","-","2","0">>}

Schemes == {<<"h","t","t","p","s",":","/","/">>, <<"h","t","t","p",":","/","/">>}

Hosts == {<<"a","m","a","z","o","n",".","i","n">>, <<"w","w","w",".","a","m","a","z","o","n",".","c","o","m">>, <<"e","x","a","m","p","l","e",".","c","o","m">>, <<"a","m","z","n",".","t","o">>, <<"a",".","c","o">>}

Paths == {<<"/","d","p","/","B","0","8","N","5","W","R","W","N","W">>, <<"/","P","h","o","n","e","/","d","p","/","B","0","8","N","5","W","R","W","N","W","/","r","e","f","=","s","r","_","1","_","1">>, <<"/","g","p","/","p","r","o","d","u","c","t","/","B","0","0","T","E","S","T","I","D","1">>,
          <<"/","s">>, <<"/","3","x","y","z">>}

\* query fields: another tag, an unlisted parameter, allow-listed ones (one
\* with a blank value, one whose value holds a.co, one with a +)
Fields == {<<"t","a","g","=","o","l","d","-","2","0">>, <<"f","o","o","=","1">>, <<"r","e","f","=","a","b","c">>, <<"p","s","c","=">>, <<"k","e","y","w","o","r","d","s","=","a",".","c","o">>, <<"q","i","d","=","a","+","b">>}

Queries == {<<>>} \cup {<<f>> : f \in Fields} \cup {<<f, g>> : f, g \in Fields}

\* scheme + host + path [+ ? + fields joined by &]
MakeUrl(scheme, host, path, fields) ==
    scheme \o host \o path \o (IF fields = <<>> THEN <<>> ELSE <<"?">> \o Join(fields, <<"&">>))

\* what the redirector answers for a shortened link: nothing (the fetch
\* fails), or the product page it stands for
RedirectTargets == {<<>>, <<"h","t","t","p","s",":","/","/","a","m","a","z","o","n",".","c","o","m","/","d","p","/","B","0","0","T","E","S","T","I","D","1","?","r","e","f","=","a","b","c">>}

\* the URLs a text is made of
TextUrls == {<<"h","t","t","p","s",":","/","/","a","m","a","z","o","n",".","i","n","/","d","p","/","B","0","8","N","5","W","R","W","N","W">>,
             <<"h","t","t","p","s",":","/","/","a","m","a","z","o","n",".","i","n","/","d","p","/","B","0","8","N","5","W","R","W","N","W","?","r","e","f","=","a","b","c">>,
             <<"h","t","t","p","s",":","/","/","w","w","w",".","a","m","a","z","o","n",".","c","o","m","/","d","p","/","B","0","8","N","5","W","R","W","N","W","?","t","a","g","=","o","l","d","-","2","0">>,
             <<"h","t","t","p","s",":","/","/","s","m","i","l","e",".","a","m","a","z","o","n",".","c","o","m","/","d","p","/","B","0","8","N","5","W","R","W","N","W">>,
             <<"h","t","t","p",":","/","/","a","m","a","z","o","n",".","i","n","/","d","p","/","B","0","8","N","5","W","R","W","N","W">>,
             <<"a","m","a","z","o","n",".","i","n","/","d","p","/","B","0","8","N","5","W","R","W","N","W">>,
             <<"h","t","t","p","s",":","/","/","a","m","a","z","o","n",".","i","n","/","s">>,
             <<"h","t","t","p","s",":","/","/","a","m","a","z","o","n",".","i","n","/","s","?","k","=","x">>,
             <<"h","t","t","p","s",":","/","/","a","m","z","n",".","t","o","/","3","x","y","z">>,
             <<"h","t","t","p","s",":","/","/","a",".","c","o","/","d","/","7","x","Y","z","A","b","c">>,
             <<"h","t","t","p","s",":","/","/","e","x","a","m","p","l","e",".","c","o","m","/","d","p","/","B","0","8","N","5","W","R","W","N","W">>,
             <<"h","t","t","p","s",":","/","/","e","x","a","m","p","l","e",".","c","o","m","/","s","h","o","p">>}

Leads == {<<>>, <<"D","e","a","l","!"," ">>}

\* what follows a URL: nothing, plain text, sentence punctuation, a closing bracket
Tails == {<<>>, <<" ","c","h","e","a","p">>, <<"!">>, <<"."," ","o","k">>, <<")">>}

Lit(s) == [kind |-> "lit", s |-> s]

Url(s) == [kind |-> "url", s |-> s]

\* a text as the sequence of its pieces: literal text and URLs
TextParts ==
    {<<Lit(a), Url(u), Lit(z)>> : a \in Leads, u \in TextUrls, z \in Tails}
    \cup {<<Lit(a), Url(u), Lit(<<" ">>), Url(v), Lit(z)>> :
              a \in Leads, u \in TextUrls, v \in TextUrls, z \in {<<>>}}
    \cup {<<Lit(<<"n","o"," ","l","i","n","k","s"," ","h","e","r","e">>)>>, <<Lit(<<>>)>>}

RECURSIVE Flatten(_)
Flatten(ps) == IF ps = <<>> THEN <<>> ELSE Head(ps).s \o Flatten(Tail(ps))

(* ------------------------------------------------------------------------ *)
(* State                                                                    *)
(* ------------------------------------------------------------------------ *)

VARIABLES
    pc,                \* "idle", "link" after convert_amazon_link, "text" after convert_all_links
    AFFILIATE_TAG,     \* the configured tag
    passes,            \* calls made in a row, each on the previous result
    source_url,        \* the URL the first call was given
    redirect,          \* what the redirector resolves source_url to; <<>>: it fails
    url,               \* the argument of the last convert_amazon_link call
    affiliate_url,     \* its result
    parts,             \* the pieces of the text the first call was given
    text,              \* the argument of the last convert_all_links call
    converted_text,    \* its results
    conversion_count

\* the message handler
VARIABLES
    YOUR_CHANNEL_ID,   \* the configured channel, or None
    total_messages,    \* the two process-wide tallies
    total_conversions,
    handler,           \* per inbound message: where its handle_message call stands, and its locals
    channel_log,       \* per message: the outcomes of its send_message calls to the channel
    reply_log          \* per message: its reply_text calls, what each carried and its outcome

linkVars == <<pc, AFFILIATE_TAG, passes, source_url, redirect, url, affiliate_url,
              parts, text, converted_text, conversion_count>>

botVars == <<YOUR_CHANNEL_ID, total_messages, total_conversions, handler, channel_log,
             reply_log>>

\* the scheduled posts
VARIABLES
    store,             \* the durable records of the scheduled posts; a post's id is its index
    timers,            \* the ids with a timer in the memory of the running process
    delivering,        \* the ids whose dispatch has read the record and is sending
    now,               \* the clock
    deliveries,        \* per post: how often the destination received it
    post_log           \* per post: what was started, committed or refused, in order

schedVars == <<store, timers, delivering, now, deliveries, post_log>>

vars == <<linkVars, botVars, schedVars>>

\* no post has been scheduled
SchedIdle ==
    /\ store = <<>>
    /\ timers = {}
    /\ delivering = {}
    /\ now = 0
    /\ deliveries = <<>>
    /\ post_log = <<>>

\* os.environ.get of a variable that is not set
None == "None"

\* the inbound messages
Messages == {"m1", "m2"}

\* a handle_message call that has not begun
NotStarted ==
    [pc |-> "new", user_text |-> <<>>, retry_count |-> 0, attempt |-> 0,
     channel_success |-> FALSE, converted_text |-> <<>>, conversion_count |-> 0]

\* no message has arrived, nothing is counted
BotIdle ==
    /\ total_messages = 0
    /\ total_conversions = 0
    /\ handler = [m \in Messages |-> NotStarted]
    /\ channel_log = [m \in Messages |-> <<>>]
    /\ reply_log = [m \in Messages |-> <<>>]

Init ==
    /\ pc = "idle"
    /\ AFFILIATE_TAG \in Tags
    /\ passes = 0
    /\ source_url = <<>>
    /\ redirect = <<>>
    /\ url = <<>>
    /\ affiliate_url = <<>>
    /\ parts = <<>>
    /\ text = <<>>
    /\ converted_text = <<>>
    /\ conversion_count = 0
    /\ YOUR_CHANNEL_ID = None
    /\ BotIdle
    /\ SchedIdle

\* the host of a URL that has a scheme
HostOf(u) == lower(urlparse(u).netloc)

\* the two redirector domains
IsRedirector(u) == HostOf(u) \in {<<"a","m","z","n",".","t","o">>, <<"a",".","c","o">>}

\* URLs that urlparse refuses: an opening bracket in the host and no closing one
MalformedUrls == {<<"h","t","t","p","s",":","/","/","[","a","m","a","z","o","n",".","i","n","/","d","p","/","B","0","8","N","5","W","R","W","N","W">>, <<"h","t","t","p","s",":","/","/","[","a","m","z","n",".","t","o","/","3","x","y","z">>}

\* the URLs convert_amazon_link is called with
LinkUrls ==
    {MakeUrl(s, h, p, q) : s \in Schemes, h \in Hosts, p \in Paths, q \in Queries}
    \cup MalformedUrls

\* a call and what the redirector would answer: only a shortened link resolves
LinkCalls ==
    {c \in LinkUrls \X RedirectTargets : c[2] # <<>> => IsRedirector(c[1])}

\* convert_amazon_link(u, AFFILIATE_TAG), while the redirector would answer r
ConvertLink ==
    /\ pc = "idle"
    /\ \E c \in LinkCalls :
           /\ source_url' = c[1]
           /\ redirect' = c[2]
           /\ url' = c[1]
           /\ affiliate_url' = convert_amazon_link(c[1], AFFILIATE_TAG)
    /\ pc' = "link"
    /\ passes' = 1
    /\ UNCHANGED <<AFFILIATE_TAG, parts, text, converted_text, conversion_count>>
    /\ UNCHANGED <<botVars, schedVars>>

\* convert_amazon_link on its own result
ReconvertLink ==
    /\ pc = "link"
    /\ passes < MaxPasses
    /\ passes' = passes + 1
    /\ url' = affiliate_url
    /\ affiliate_url' = convert_amazon_link(affiliate_url, AFFILIATE_TAG)
    /\ UNCHANGED <<pc, AFFILIATE_TAG, source_url, redirect, parts, text,
                   converted_text, conversion_count>>
    /\ UNCHANGED <<botVars, schedVars>>

\* convert_all_links(text, AFFILIATE_TAG) on the text made of the pieces ps
ConvertAll ==
    /\ pc = "idle"
    /\ \E ps \in TextParts :
           /\ parts' = ps
           /\ text' = Flatten(ps)
           /\ \E r \in {convert_all_links(Flatten(ps), AFFILIATE_TAG)} :
                  /\ converted_text' = r.converted_text
                  /\ conversion_count' = r.conversion_count
    /\ pc' = "text"
    /\ passes' = 1
    /\ UNCHANGED <<AFFILIATE_TAG, source_url, redirect, url, affiliate_url>>
    /\ UNCHANGED <<botVars, schedVars>>

\* convert_all_links on its own result
ReconvertAll ==
    /\ pc = "text"
    /\ passes < MaxPasses
    /\ passes' = passes + 1
    /\ text' = converted_text
    /\ \E r \in {convert_all_links(converted_text, AFFILIATE_TAG)} :
           /\ converted_text' = r.converted_text
           /\ conversion_count' = r.conversion_count
    /\ UNCHANGED <<pc, AFFILIATE_TAG, source_url, redirect, url, affiliate_url, parts>>
    /\ UNCHANGED <<botVars, schedVars>>

Next ==
    \/ ConvertLink
    \/ ReconvertLink
    \/ ConvertAll
    \/ ReconvertAll

Spec == Init /\ [][Next]_vars


(* ------------------------------------------------------------------------ *)
(* handle_message                                                           *)
(*                                                                          *)
(* The application runs the handler of every update as a task of its own    *)
(* (concurrent_updates): the handlers of two messages interleave at their   *)
(* awaits, and each action below is the code of one handler from one await  *)
(* to the next.  A send to Telegram ends in one of three ways.              *)
(* ------------------------------------------------------------------------ *)

\* max_retries = 3
max_retries == 3

\* for attempt in range(5): the channel post
ChannelAttempts == 5

\* for attempt in range(3): the confirmation
ConfirmAttempts == 3

\* how an awaited send ends: it returns, it raises TimedOut or NetworkError,
\* it raises another exception
Outcomes == {"ok", "network", "error"}

\* the texts of the inbound messages: one link, two links, no link, no text
BotTexts == {<<"h","t","t","p","s",":","/","/","a","m","a","z","o","n",".","i","n","/","d","p","/","B","0","8","N","5","W","R","W","N","W">>,
             <<"D","e","a","l","!"," ","h","t","t","p","s",":","/","/","a","m","a","z","o","n",".","i","n","/","d","p","/","B","0","8","N","5","W","R","W","N","W"," ","h","t","t","p","s",":","/","/","a","m","a","z","o","n",".","i","n","/","s">>,
             <<"h","e","l","l","o">>,
             <<>>}

\* the channel is posted to whatever the setting
ChannelAlways(channel_id) == TRUE

\* if YOUR_CHANNEL_ID:
ChannelConfigured(channel_id) == channel_id # None

\* the handler once the text is converted: the tallies are its caller's
AfterConvert(h, r) ==
    [h EXCEPT !.converted_text = r.converted_text,
              !.conversion_count = r.conversion_count,
              !.attempt = 0,
              !.channel_success = FALSE,
              !.pc = IF r.conversion_count > 0
                     THEN (IF ChannelConfigured(YOUR_CHANNEL_ID) THEN "channel" ELSE "confirm")
                     ELSE "help"]

\* the application hands an update to handle_message
Receive(m) ==
    /\ handler[m].pc = "new"
    /\ \E t \in BotTexts :
           handler' = [handler EXCEPT ![m] = [NotStarted EXCEPT !.pc = "start", !.user_text = t]]
    /\ UNCHANGED <<YOUR_CHANNEL_ID, total_messages, total_conversions, channel_log, reply_log>>
    /\ UNCHANGED <<linkVars, schedVars>>

\* one turn of the while loop, up to its first await: the message is
\* counted, its text converted, the conversions counted
Begin(m) ==
    /\ handler[m].pc = "start"
    /\ IF handler[m].user_text = <<>>
       THEN /\ handler' = [handler EXCEPT ![m].pc = "done"]
            /\ UNCHANGED <<total_messages, total_conversions>>
       ELSE \E r \in {convert_all_links(handler[m].user_text, AFFILIATE_TAG)} :
                /\ total_messages' = total_messages + 1
                /\ total_conversions' = total_conversions + r.conversion_count
                /\ handler' = [handler EXCEPT ![m] = AfterConvert(handler[m], r)]
    /\ UNCHANGED <<YOUR_CHANNEL_ID, channel_log, reply_log>>
    /\ UNCHANGED <<linkVars, schedVars>>

\* every failure of the channel post is tried again
AfterChannelSendRetryAll(h, o) ==
    IF o = "ok" THEN [h EXCEPT !.channel_success = TRUE, !.attempt = 0, !.pc = "confirm"]
    ELSE IF h.attempt < ChannelAttempts - 1 THEN [h EXCEPT !.attempt = h.attempt + 1]
    ELSE [h EXCEPT !.attempt = 0, !.pc = "confirm"]

\* the channel loop after one send_message: break on success and on another
\* exception, the next attempt on TimedOut or NetworkError while any is left
AfterChannelSend(h, o) ==
    IF o = "ok" THEN [h EXCEPT !.channel_success = TRUE, !.attempt = 0, !.pc = "confirm"]
    ELSE IF o = "network" /\ h.attempt < ChannelAttempts - 1
         THEN [h EXCEPT !.attempt = h.attempt + 1]
    ELSE [h EXCEPT !.attempt = 0, !.pc = "confirm"]

\* await context.bot.send_message(chat_id=YOUR_CHANNEL_ID, ...)
ChannelSend(m) ==
    /\ handler[m].pc = "channel"
    /\ \E o \in Outcomes :
           /\ channel_log' = [channel_log EXCEPT ![m] = Append(@, o)]
           /\ handler' = [handler EXCEPT ![m] = AfterChannelSend(handler[m], o)]
    /\ UNCHANGED <<YOUR_CHANNEL_ID, total_messages, total_conversions, reply_log>>
    /\ UNCHANGED <<linkVars, schedVars>>

\* confirmation_text: the rewritten text and the channel status
ConfirmationText(h) ==
    [kind |-> "confirmation",
     text |-> h.converted_text,
     channel |-> IF ~ChannelConfigured(YOUR_CHANNEL_ID) THEN "not configured"
                 ELSE IF h.channel_success THEN "posted" ELSE "failed"]

\* the confirmation loop after one reply_text: break on success, the next
\* attempt on TimedOut or NetworkError while any is left; another exception
\* leaves for the handler's except Exception
AfterConfirm(h, o) ==
    IF o = "ok" THEN [h EXCEPT !.pc = "done"]
    ELSE IF o = "network"
         THEN (IF h.attempt < ConfirmAttempts - 1 THEN [h EXCEPT !.attempt = h.attempt + 1]
               ELSE [h EXCEPT !.pc = "done"])
    ELSE [h EXCEPT !.pc = "apology"]

\* await update.message.reply_text(confirmation_text, ...)
ConfirmReply(m) ==
    /\ handler[m].pc = "confirm"
    /\ \E o \in Outcomes :
           /\ reply_log' = [reply_log EXCEPT
                               ![m] = Append(@, [body |-> ConfirmationText(handler[m]),
                                                 outcome |-> o])]
           /\ handler' = [handler EXCEPT ![m] = AfterConfirm(handler[m], o)]
    /\ UNCHANGED <<YOUR_CHANNEL_ID, total_messages, total_conversions, channel_log>>
    /\ UNCHANGED <<linkVars, schedVars>>

\* the help reply is awaited outside any inner try: TimedOut or NetworkError
\* reaches the handler's own except, which counts a retry and runs the loop
\* again while retry_count < max_retries
AfterHelp(h, o) ==
    IF o = "ok" THEN [h EXCEPT !.pc = "done"]
    ELSE IF o = "network"
         THEN [h EXCEPT !.retry_count = h.retry_count + 1,
                        !.pc = IF h.retry_count + 1 < max_retries THEN "start" ELSE "apology"]
    ELSE [h EXCEPT !.pc = "apology"]

\* await update.message.reply_text(<no links detected>)
HelpReply(m) ==
    /\ handler[m].pc = "help"
    /\ \E o \in Outcomes :
           /\ reply_log' = [reply_log EXCEPT
                               ![m] = Append(@, [body |-> [kind |-> "help"], outcome |-> o])]
           /\ handler' = [handler EXCEPT ![m] = AfterHelp(handler[m], o)]
    /\ UNCHANGED <<YOUR_CHANNEL_ID, total_messages, total_conversions, channel_log>>
    /\ UNCHANGED <<linkVars, schedVars>>

\* the last reply of a handler that gave up; whatever it raises is dropped
ApologyReply(m) ==
    /\ handler[m].pc = "apology"
    /\ \E o \in Outcomes :
           reply_log' = [reply_log EXCEPT
                            ![m] = Append(@, [body |-> [kind |-> "apology"], outcome |-> o])]
    /\ handler' = [handler EXCEPT ![m].pc = "done"]
    /\ UNCHANGED <<YOUR_CHANNEL_ID, total_messages, total_conversions, channel_log>>
    /\ UNCHANGED <<linkVars, schedVars>>

\* the bot starts with or without a channel
InitBot ==
    /\ pc = "idle"
    /\ AFFILIATE_TAG = <<"m","y","t","a","g","-","2","1">>
    /\ passes = 0
    /\ source_url = <<>>
    /\ redirect = <<>>
    /\ url = <<>>
    /\ affiliate_url = <<>>
    /\ parts = <<>>
    /\ text = <<>>
    /\ converted_text = <<>>
    /\ conversion_count = 0
    /\ YOUR_CHANNEL_ID \in {None, "@deals"}
    /\ BotIdle
    /\ SchedIdle

NextBot ==
    \E m \in Messages :
        \/ Receive(m)
        \/ Begin(m)
        \/ ChannelSend(m)
        \/ ConfirmReply(m)
        \/ HelpReply(m)
        \/ ApologyReply(m)

SpecBot == InitBot /\ [][NextBot]_vars

(* ------------------------------------------------------------------------ *)
(* Scheduled posts                                                          *)
(*                                                                          *)
(* The store, the schedule and cancel operations and the dispatch protocol  *)
(* are those of the specification's section 4.2 and 5: this version of the  *)
(* bot holds none of them.  What a start of the process does is main().     *)
(* ------------------------------------------------------------------------ *)

\* the records the store may hold
MaxPosts == 1

\* the last tick of the clock
MaxTime == 2

\* the submitting users
Users == {42, 7}

\* the record schedule persists
NewPost(user_id, target_time) ==
    [owner |-> user_id, target_time |-> target_time, status |-> "pending"]

\* schedule(user_id, target_time, ...): the time must be in the future; the
\* record is persisted as pending and a timer registered for it
Schedule(user_id, target_time) ==
    /\ Len(store) < MaxPosts
    /\ target_time > now
    /\ store' = Append(store, NewPost(user_id, target_time))
    /\ timers' = timers \cup {Len(store) + 1}
    /\ deliveries' = Append(deliveries, 0)
    /\ post_log' = Append(post_log, <<>>)
    /\ UNCHANGED <<delivering, now>>
    /\ UNCHANGED <<linkVars, botVars>>

\* time passes
Tick ==
    /\ now < MaxTime
    /\ now' = now + 1
    /\ UNCHANGED <<store, timers, delivering, deliveries, post_log>>
    /\ UNCHANGED <<linkVars, botVars>>

\* an update that ignores the status the record has
UpdateAlways(post, status) == [post EXCEPT !.status = status]

\* the atomic conditional update: status becomes X only where it is pending
UpdateIfPending(post, status) ==
    IF post.status = "pending" THEN [post EXCEPT !.status = status] ELSE post

\* the delivery begins whatever the status read
MayDeliverAlways(post) == TRUE

\* the status check immediately before the delivery is attempted
MayDeliver(post) == post.status = "pending"

\* a timer fires at or after target_time: the record is read, and the
\* delivery begins if it is still pending
DispatchBegin(id) ==
    /\ id \in timers
    /\ now >= store[id].target_time
    /\ timers' = timers \ {id}
    /\ IF MayDeliver(store[id])
       THEN /\ delivering' = delivering \cup {id}
            /\ post_log' = [post_log EXCEPT ![id] = Append(@, <<"start", 0>>)]
       ELSE UNCHANGED <<delivering, post_log>>
    /\ UNCHANGED <<store, now, deliveries>>
    /\ UNCHANGED <<linkVars, botVars>>

\* the delivery ends: the post arrived (sent) or the send raised (failed);
\* the status is committed with the conditional update
DispatchEnd(id) ==
    /\ id \in delivering
    /\ delivering' = delivering \ {id}
    /\ \E status \in {"sent", "failed"} :
           /\ deliveries' = [deliveries EXCEPT ![id] = IF status = "sent" THEN @ + 1 ELSE @]
           /\ store' = [store EXCEPT ![id] = UpdateIfPending(@, status)]
           /\ post_log' = [post_log EXCEPT
                              ![id] = Append(@, IF store'[id].status = status THEN <<status, 0>>
                                                ELSE <<"refused", 0>>)]
    /\ UNCHANGED <<timers, now>>
    /\ UNCHANGED <<linkVars, botVars>>

\* an entry of post_log is <<what, who>>, the dispatcher being 0

\* cancel(user_id, post_id): success where the record is the user's and
\* pending, NotFound otherwise; one request per user and post
Cancel(user_id, id) ==
    /\ id \in 1..Len(store)
    /\ ~\E i \in 1..Len(post_log[id]) : post_log[id][i] \in {<<"cancel", user_id>>, <<"NotFound", user_id>>}
    /\ IF store[id].owner = user_id /\ store[id].status = "pending"
       THEN /\ store' = [store EXCEPT ![id] = UpdateIfPending(@, "cancelled")]
            /\ post_log' = [post_log EXCEPT ![id] = Append(@, <<"cancel", user_id>>)]
       ELSE /\ post_log' = [post_log EXCEPT ![id] = Append(@, <<"NotFound", user_id>>)]
            /\ UNCHANGED store
    /\ UNCHANGED <<timers, delivering, now, deliveries>>
    /\ UNCHANGED <<linkVars, botVars>>

\* what a start of the process registers for the records of the store:
\* main() builds the application, adds the start and the message handler and
\* polls; it reads no store and registers no timer
RegisteredAtStartup(records) == {}

\* the process stops and main() starts it again: the store is kept, what
\* was in memory (timers, deliveries under way) is gone
Restart ==
    /\ store # <<>>
    /\ timers' = RegisteredAtStartup(store)
    /\ delivering' = {}
    /\ UNCHANGED <<store, now, deliveries, post_log>>
    /\ UNCHANGED <<linkVars, botVars>>

InitSched ==
    /\ pc = "idle"
    /\ AFFILIATE_TAG = <<"m","y","t","a","g","-","2","1">>
    /\ passes = 0
    /\ source_url = <<>>
    /\ redirect = <<>>
    /\ url = <<>>
    /\ affiliate_url = <<>>
    /\ parts = <<>>
    /\ text = <<>>
    /\ converted_text = <<>>
    /\ conversion_count = 0
    /\ YOUR_CHANNEL_ID = "@deals"
    /\ BotIdle
    /\ SchedIdle

NextSched ==
    \/ \E u \in Users, t \in 1..MaxTime : Schedule(u, t)
    \/ Tick
    \/ \E id \in 1..Len(store) : DispatchBegin(id)
    \/ \E id \in 1..Len(store) : DispatchEnd(id)
    \/ \E u \in Users, id \in 1..Len(store) : Cancel(u, id)
    \/ Restart

SpecSched == InitSched /\ [][NextSched]_vars
(* ------------------------------------------------------------------------ *)
(* What the claims speak of                                                 *)
(* ------------------------------------------------------------------------ *)

\* a catalog domain (amazon.<tld>) or one of the two redirector domains
IsRecognized(u) == IsRedirector(u) \/ Contains(HostOf(u), <<"a","m","a","z","o","n",".">>)

\* a canonical product URL: a catalog domain and /dp/<10 alphanumerics> in the path
IsCanonicalProduct(u) ==
    /\ Contains(HostOf(u), <<"a","m","a","z","o","n",".">>)
    /\ \E i \in 1..Len(urlparse(u).path) :
           StartsWithAt(urlparse(u).path, i, <<"/","d","p","/">>) /\ IsAsinAt(urlparse(u).path, i + 4)

\* the raw fields of the query string of u
QueryFields(u) ==
    IF Contains(u, <<"?">>) THEN Split(From(u, Find(u, <<"?">>, 1) + 1), "&") ELSE <<>>

\* the tag fields among them
TagFields(u) == SelectSeq(QueryFields(u), LAMBDA f : StartsWithAt(f, 1, <<"t","a","g","=">>))

\* convert_amazon_link took its identifier branch on u
AsinResolved(u) ==
    ~IsShortened(u) /\ urlparse(u).ok /\ ExtractAsin(urlparse(u).path, 1) # <<>>

\* the (name, value) pairs of the raw fields of u, blank values included
RawPairs(u) ==
    {[name |-> Upto(f, Find(f, <<"=">>, 1) - 1),
      value |-> unquote(Replace(From(f, Find(f, <<"=">>, 1) + 1), <<"+">>, <<" ">>))] :
         f \in {g \in {QueryFields(u)[i] : i \in 1..Len(QueryFields(u))} : Contains(g, <<"=">>)}}

\* the parameters the rewrite of a product URL lets through, besides the tag
AllowList == {<<"r","e","f">>, <<"p","s","c">>, <<"k","e","y","w","o","r","d","s">>, <<"q","i","d">>, <<"s","r">>}

Range(seq) == {seq[i] : i \in 1..Len(seq)}

\* the URL a piece of text stands for: with https:// where it has no scheme
UrlOfPart(p) == CleanUrl(p.s)

\* what a piece should read after the rewrite
RewrittenPart(p) ==
    IF p.kind = "url" /\ IsRecognized(UrlOfPart(p))
    THEN convert_amazon_link(UrlOfPart(p), AFFILIATE_TAG)
    ELSE p.s

\* the text with every recognized URL replaced, once, by its rewritten form
RECURSIVE RewrittenText(_)
RewrittenText(ps) ==
    IF ps = <<>> THEN <<>> ELSE RewrittenPart(Head(ps)) \o RewrittenText(Tail(ps))

\* the distinct recognized URLs of a text that the rewrite changes
ChangedUrls(ps) ==
    {UrlOfPart(ps[i]) : i \in {j \in 1..Len(ps) :
        /\ ps[j].kind = "url"
        /\ IsRecognized(UrlOfPart(ps[j]))
        /\ convert_amazon_link(UrlOfPart(ps[j]), AFFILIATE_TAG) # UrlOfPart(ps[j])}}

\* the URL pieces of a text
UrlParts(ps) == {ps[i].s : i \in {j \in 1..Len(ps) : ps[j].kind = "url"}}

\* s is a proper prefix of t
IsProperPrefix(s, t) == Len(s) < Len(t) /\ StartsWithAt(t, 1, s)

\* "amazon", "amzn.to" or "a.co" occurs in the text, in any case
HasCatalogDomain(t) ==
    \E i \in 1..Len(t) :
        \/ StartsWithAtCI(t, i, <<"a","m","a","z","o","n">>)
        \/ StartsWithAtCI(t, i, <<"a","m","z","n",".","t","o">>)
        \/ StartsWithAtCI(t, i, <<"a",".","c","o">>)

\* https://<domain>/dp/<identifier>?tag=<affiliate_tag> of a product page
CanonicalForm(target, tag) ==
    <<"h","t","t","p","s",":","/","/">> \o HostOf(target) \o <<"/","d","p","/">>
    \o SubSeq(target, Find(target, <<"/","d","p","/">>, 1) + 4, Find(target, <<"/","d","p","/">>, 1) + 3 + AsinLen)
    \o <<"?","t","a","g","=">> \o tag

(* ------------------------------------------------------------------------ *)
(* Claims                                                                   *)
(* ------------------------------------------------------------------------ *)

\* C1: for a canonical product URL (/dp/<10 alphanumerics> on a catalog
\* domain) with any query string, convert_amazon_link returns a URL with
\* exactly one tag parameter, whose value is the affiliate tag.
C1_ExactlyOneTag ==
    (pc = "link" /\ passes = 1 /\ IsCanonicalProduct(url))
        => TagFields(affiliate_url) = <<<<"t","a","g","=">> \o AFFILIATE_TAG>>

\* C2: rewriting is idempotent: convert_amazon_link applied to its own
\* result, for a URL of any recognized class, returns that result.
C2_Idempotent ==
    (pc = "link" /\ passes = 2 /\ IsRecognized(source_url)) => affiliate_url = url

\* C3: convert_all_links treats every distinct URL once, whatever number of
\* patterns match it or a part of it: the count is the number of distinct
\* recognized URLs that changed, and every occurrence is replaced once.
C3_EachUrlOnce ==
    (pc = "text" /\ passes = 1)
        => /\ conversion_count = Cardinality(ChangedUrls(parts))
           /\ converted_text = RewrittenText(parts)

\* C4: where one recognized URL of a text is a prefix of another, each is
\* replaced by its own rewritten form and nothing of the longer one is left
\* behind the rewritten shorter one.
C4_NoPrefixCorruption ==
    (/\ pc = "text" /\ passes = 1
     /\ \E u, v \in UrlParts(parts) :
            IsProperPrefix(u, v) /\ IsRecognized(CleanUrl(u)) /\ IsRecognized(CleanUrl(v)))
        => converted_text = RewrittenText(parts)

\* C5: for a text that holds the same URL twice, the count for it is 1 and
\* both occurrences are replaced by its rewritten form.
C5_DuplicateCountedOnce ==
    (/\ pc = "text" /\ passes = 1
     /\ Len(parts) = 5 /\ parts[2] = parts[4]
     /\ ChangedUrls(parts) # {})
        => /\ conversion_count = 1
           /\ converted_text = RewrittenText(parts)

\* C6: a text that holds no catalog-domain substring (neither amazon nor
\* amzn.to nor a.co) is returned unchanged, with a conversion count of zero.
C6_NoDomainUnchanged ==
    (pc = "text" /\ ~HasCatalogDomain(text))
        => (converted_text = text /\ conversion_count = 0)

\* a text without catalog domain that holds a URL with a product path was rewritten
C6_Witness ==
    /\ pc = "text" /\ passes = 1
    /\ ~HasCatalogDomain(text)
    /\ Contains(text, <<"h","t","t","p","s",":","/","/","e","x","a","m","p","l","e",".","c","o","m","/","d","p","/","B","0","8","N","5","W","R","W","N","W">>)
    /\ converted_text = text

\* C7: a URL whose domain is neither a catalog nor a redirector domain is
\* returned unchanged, whatever its path holds.
C7_ForeignUrlUnchanged ==
    (pc = "link" /\ passes = 1 /\ ~IsRecognized(url)) => affiliate_url = url

\* C8: convert_all_links applied to its own result changes nothing and
\* counts zero conversions.
C8_SecondPassNoOp ==
    (pc = "text" /\ passes = 2) => (converted_text = text /\ conversion_count = 0)

\* C9: a shortened link is resolved and rewritten to the canonical form of
\* the page it redirects to; where the resolution fails it is left unchanged.
C9_ShortLinkResolved ==
    (pc = "link" /\ passes = 1 /\ IsRedirector(source_url))
        => affiliate_url = (IF redirect # <<>> THEN CanonicalForm(redirect, AFFILIATE_TAG)
                            ELSE source_url)

\* C10, as stated: where an identifier is resolved, the returned query
\* string holds the tag plus exactly the allow-listed input parameters,
\* each with its value.
C10_AllowListKeepsAll ==
    (pc = "link" /\ AsinResolved(url))
        => Range(parse_qsl(urlparse(affiliate_url).query))
           = {p \in RawPairs(url) : p.name \in AllowList}
             \cup {[name |-> <<"t","a","g">>, value |-> AFFILIATE_TAG]}

\* C10, amended: where an identifier is resolved, the returned query string
\* holds one tag parameter, with the affiliate tag, plus exactly the
\* allow-listed input parameters that have a non-empty value, each with its
\* value; the others, and those with an empty value, are dropped.
C10_AllowListKeepsNonBlank ==
    (pc = "link" /\ AsinResolved(url))
        => /\ Range(parse_qsl(urlparse(affiliate_url).query))
              = {p \in RawPairs(url) :
                    p.name \in AllowList /\ p.value # <<>>}
                \cup {[name |-> <<"t","a","g">>, value |-> AFFILIATE_TAG]}
           /\ Len(TagFields(affiliate_url)) = 1

\* a product URL with an allow-listed and an unlisted parameter was rewritten
C10_Witness ==
    /\ pc = "link" /\ passes = 1
    /\ AsinResolved(url)
    /\ Contains(url, <<"f","o","o","=","1">>) /\ Contains(url, <<"r","e","f","=","a","b","c">>)
    /\ Contains(affiliate_url, <<"r","e","f","=","a","b","c">>)
    /\ ~Contains(affiliate_url, <<"f","o","o","=","1">>)

\* C11: the link rewriter never raises, and a URL that cannot be parsed
\* (urlparse raises on it) is returned unchanged.
C11_UnparsableUnchanged ==
    (pc = "link" /\ passes = 1 /\ ~urlparse(url).ok) => affiliate_url = url

\* C12: for prefix + URL + trailing punctuation or closing bracket + suffix,
\* the URL with or without a scheme, convert_all_links returns
\* prefix + convert_amazon_link(URL) + the same punctuation + suffix.
C12_PunctuationKept ==
    (/\ pc = "text" /\ passes = 1
     /\ Len(parts) = 3
     /\ parts[2].s \in {<<"h","t","t","p","s",":","/","/","a","m","a","z","o","n",".","i","n","/","d","p","/","B","0","8","N","5","W","R","W","N","W">>, <<"a","m","a","z","o","n",".","i","n","/","d","p","/","B","0","8","N","5","W","R","W","N","W">>}
     /\ parts[3].s # <<>>
     /\ parts[3].s[1] \in TrailingPunct)
        => converted_text = parts[1].s
                            \o convert_amazon_link(CleanUrl(parts[2].s), AFFILIATE_TAG)
                            \o parts[3].s

\* what convert_all_links makes of each message text
Rewritten == [t \in BotTexts |-> convert_all_links(t, <<"m","y","t","a","g","-","2","1">>)]

\* the confirmations among the replies to a message
Confirmations(m) == SelectSeq(reply_log[m], LAMBDA s : s.body.kind = "confirmation")

\* the replies to a message that arrived
Delivered(log) == SelectSeq(log, LAMBDA s : s.outcome = "ok")

\* C13: without a configured channel no message is published to a channel,
\* and a message with a converted link is still answered: the handler sends
\* a confirmation that carries the rewritten text, again while the send
\* fails on the network, and at most one arrives.
C13_NoChannelStillAnswers ==
    YOUR_CHANNEL_ID = None =>
        \A m \in Messages :
            /\ channel_log[m] = <<>>
            /\ (handler[m].pc = "done" /\ Rewritten[handler[m].user_text].conversion_count > 0)
                   => /\ Confirmations(m) # <<>>
                      /\ \A i \in 1..Len(Confirmations(m)) :
                             /\ Confirmations(m)[i].body.text
                                    = Rewritten[handler[m].user_text].converted_text
                             /\ Confirmations(m)[i].body.channel = "not configured"
                      /\ Len(Delivered(Confirmations(m))) <= 1
                      /\ \/ Len(Delivered(Confirmations(m))) = 1
                         \/ Len(Confirmations(m)) = ConfirmAttempts
                         \/ Confirmations(m)[Len(Confirmations(m))].outcome = "error"

\* without a channel, a message with a link was answered with its rewritten text
C13_Witness ==
    /\ YOUR_CHANNEL_ID = None
    /\ \E m \in Messages :
           /\ handler[m].pc = "done"
           /\ handler[m].conversion_count > 0
           /\ Len(reply_log[m]) = 2
           /\ reply_log[m][1].outcome = "network"
           /\ reply_log[m][2].outcome = "ok"
           /\ reply_log[m][2].body.text = <<"h","t","t","p","s",":","/","/","a","m","a","z","o","n",".","i","n","/","d","p","/","B","0","8","N","5","W","R","W","N","W","?","t","a","g","=","m","y","t","a","g","-","2","1">>

\* C17: for one message the channel post succeeds at most once and is
\* attempted at most 5 times, whatever fails: only the last attempt may be a
\* success or a failure other than TimedOut/NetworkError, and no retry of the
\* handler runs the publication again.
C17_ChannelPostBounded ==
    \A m \in Messages :
        /\ Len(channel_log[m]) <= 5
        /\ \A i \in 1..(Len(channel_log[m]) - 1) : channel_log[m][i] = "network"
        /\ Len(SelectSeq(channel_log[m], LAMBDA o : o = "ok")) <= 1

\* the channel post failed five times on the network and the handler went on
C17_Witness ==
    \E m \in Messages :
        /\ handler[m].pc = "done"
        /\ Len(channel_log[m]) = 5
        /\ channel_log[m][5] = "network"
        /\ Delivered(Confirmations(m)) # <<>>

\* the conversion counts of the messages in S, added up
RECURSIVE SumOfCounts(_)
SumOfCounts(S) ==
    IF S = {} THEN 0
    ELSE LET m == CHOOSE x \in S : TRUE
         IN  Rewritten[handler[m].user_text].conversion_count + SumOfCounts(S \ {m})

\* C18: the tallies are exact: once the handlers are through, total_messages
\* is the number of text messages handled, each counted once even where the
\* handler retried, and total_conversions the sum of their conversion counts.
C18_TalliesExact ==
    (\A m \in Messages : handler[m].pc = "done")
        => /\ total_messages = Cardinality({m \in Messages : handler[m].user_text # <<>>})
           /\ total_conversions = SumOfCounts({m \in Messages : handler[m].user_text # <<>>})

\* the entries of a post's log that are among the events E
Logged(id, E) == {i \in 1..Len(post_log[id]) : post_log[id][i] \in E}

\* the status transitions the log of a post holds: the owner's cancel, the
\* dispatcher's sent or failed
Committed(id) ==
    Logged(id, {<<"cancel", store[id].owner>>, <<"sent", 0>>, <<"failed", 0>>})

\* C14: a post scheduled before a restart is still delivered, once: after
\* any schedule, restart and dispatch steps no post was delivered twice and
\* every pending record has a timer, or a delivery under way, in the running
\* process.
C14_PendingSurvivesRestart ==
    \A id \in 1..Len(store) :
        /\ deliveries[id] <= 1
        /\ store[id].status = "pending" => id \in timers \cup delivering

\* C15: sent, failed and cancelled are terminal: a record that is not
\* pending keeps its status in every step, and no record is removed.
C15_StatusMonotonic ==
    [][/\ Len(store') >= Len(store)
       /\ \A id \in 1..Len(store) :
              store[id].status # "pending" => store'[id].status = store[id].status]_vars

\* a record reached a terminal status and the owner's cancel came after it
C15_Witness ==
    \E id \in 1..Len(store) :
        /\ store[id].status = "sent"
        /\ post_log[id] = <<<<"start", 0>>, <<"sent", 0>>, <<"NotFound", store[id].owner>>>>

\* C16: of a cancel by the owner and a dispatch of the same post, one status
\* transition commits: never the cancel and sent/failed both; the record is
\* cancelled and no delivery starts after the cancel, or it is sent/failed
\* and the cancel reported NotFound; once both are through, one has committed.
C16_OneTransitionCommits ==
    \A id \in 1..Len(store) :
        /\ Cardinality(Committed(id)) <= 1
        /\ \A i \in Logged(id, {<<"cancel", store[id].owner>>}) :
               /\ store[id].status = "cancelled"
               /\ \A j \in Logged(id, {<<"start", 0>>}) : j < i
        /\ \A i \in Logged(id, {<<"sent", 0>>, <<"failed", 0>>}) :
               /\ store[id].status = post_log[id][i][1]
               /\ Logged(id, {<<"cancel", store[id].owner>>}) = {}
        /\ (/\ Logged(id, {<<"sent", 0>>, <<"failed", 0>>, <<"refused", 0>>}) # {}
            /\ Logged(id, {<<"cancel", store[id].owner>>, <<"NotFound", store[id].owner>>}) # {})
               => Cardinality(Committed(id)) = 1

\* the owner's cancel committed while the delivery was under way, and the
\* dispatcher's update was refused
C16_Witness ==
    \E id \in 1..Len(store) :
        /\ store[id].status = "cancelled"
        /\ post_log[id] = <<<<"start", 0>>, <<"cancel", store[id].owner>>, <<"refused", 0>>>>

====
